---- MODULE Spec2Model ----
(***************************************************************************)
(* Model of src/core/generator.py: the template-based slide synthesis of   *)
(* create_ppt_from_template and its helpers.                               *)
(*                                                                         *)
(* The slide-deck library (python-pptx) is the boundary.  What the model   *)
(* takes from it:                                                          *)
(*   - Presentation(path) loads a document, Presentation() the default one *)
(*   - slides.add_slide(layout) appends a slide whose shapes are fresh     *)
(*     copies of the layout's placeholders (one empty paragraph, level 0)  *)
(*   - text_frame.clear() removes every paragraph but the first and the    *)
(*     runs of the first; the first paragraph keeps its properties         *)
(*   - shape.text = s replaces all paragraphs by fresh ones                *)
(*   - text_frame.add_paragraph() appends a fresh paragraph                *)
(***************************************************************************)
EXTENDS Integers, Sequences, FiniteSets, TLC

\* ------------------------------------------------------------- bounds
MaxItems == 2
MaxSlides == 2
MaxFindSlides == 2
MaxFindShapes == 3
MaxPopShapes == 3
MaxCopyShapes == 2

\* ------------------------------------------------------------- helpers
SeqsUpTo(S, n) == UNION {[1..k -> S] : k \in 0..n}

\* ------------------------------------------------------------- data
NoFmt == [alignment |-> "none", font_name |-> "none", font_size |-> "none"]
Fmt1 == [alignment |-> "center", font_name |-> "Arial", font_size |-> "none"]
NoBox == [left |-> 0, top |-> 0, width |-> 0, height |-> 0]
Box1 == [left |-> 1, top |-> 2, width |-> 3, height |-> 4]
Box2 == [left |-> 5, top |-> 6, width |-> 7, height |-> 8]

Para(t, l, f) == [text |-> t, level |-> l, fmt |-> f]
\* the paragraph a new text body holds, and the one add_paragraph() appends
EmptyPara == Para("", 0, NoFmt)

\* one shape of slide.shapes
Shp(isph, pht, st, bx, rot, bl, ht, ps) ==
  [is_placeholder |-> isph, ph_type |-> pht, shape_type |-> st, box |-> bx,
   rotation |-> rot, blob |-> bl, has_text |-> ht, paras |-> ps]

\* a placeholder as add_slide creates it from the layout
NewPlaceholder(pht) == Shp(TRUE, pht, "PLACEHOLDER", NoBox, 0, "none", TRUE, <<EmptyPara>>)
\* placeholders of an authored slide
PhWith(pht, ps) == Shp(TRUE, pht, "PLACEHOLDER", NoBox, 0, "none", TRUE, ps)
\* non-placeholder shapes of an authored slide
Pic1 == Shp(FALSE, "none", "PICTURE", Box1, 90, "img1", FALSE, <<>>)
TextBox1 == Shp(FALSE, "none", "TEXT_BOX", Box2, 0, "none", TRUE,
                <<Para("note", 0, Fmt1), Para("more", 1, NoFmt)>>)
AutoShape1 == Shp(FALSE, "none", "AUTO_SHAPE", Box2, 0, "none", FALSE, <<>>)
AutoShape2 == Shp(FALSE, "none", "AUTO_SHAPE", Box1, 0, "none", TRUE, <<Para("tag", 0, Fmt1)>>)
Group1 == Shp(FALSE, "none", "GROUP", Box1, 0, "none", FALSE, <<>>)

\* one content item: {"title": ..., "points": [...]}
Item(t, ps) == [title |-> t, points |-> ps]

\* ------------------------------------------------- find_best_content_slide
\* lines 68-75: the inner loop adds to score for each placeholder shape
RECURSIVE shape_scores(_)
shape_scores(shapes) ==
  IF shapes = <<>> THEN 0
  ELSE LET shape == Head(shapes)
           add == IF ~shape.is_placeholder THEN 0
                  ELSE IF shape.ph_type = "TITLE" THEN 2
                  ELSE IF shape.ph_type \in {"BODY", "OBJECT"} THEN 3
                  ELSE 0
       IN add + shape_scores(Tail(shapes))

has_title(shapes) ==
  \E i \in DOMAIN shapes : shapes[i].is_placeholder /\ shapes[i].ph_type = "TITLE"

has_content_area(shapes) ==
  \E i \in DOMAIN shapes :
     shapes[i].is_placeholder /\ shapes[i].ph_type \in {"BODY", "OBJECT"}

\* lines 64-79: the score of one slide
slide_score(slide) ==
  shape_scores(slide.shapes)
    + (IF has_title(slide.shapes) /\ has_content_area(slide.shapes) THEN 5 ELSE 0)

\* lines 63-83: the scan, from slide i on, with the best found so far
\* (best_slide is an index into slides, 0 for None)
RECURSIVE best_scan(_, _, _, _)
best_scan(slides, i, best_slide, best_score) ==
  IF i > Len(slides) THEN best_slide
  ELSE LET score == slide_score(slides[i])
       IN IF score > best_score
          THEN best_scan(slides, i + 1, i, score)
          ELSE best_scan(slides, i + 1, best_slide, best_score)

find_best_content_slide(slides) == best_scan(slides, 1, 0, 0)

\* ------------------------------------------------- text frame operations
\* text_frame.clear(): one paragraph is left, the first, without its runs
tf_clear(paras) ==
  IF paras = <<>> THEN <<EmptyPara>>
  ELSE <<[paras[1] EXCEPT !.text = ""]>>

\* lines 250-262 and 283-294 after clear(): points[0] into paragraph 0, one
\* appended paragraph per remaining point, level set to 0 on the appended ones
fill_points(cleared, points) ==
  IF points = <<>> THEN cleared
  ELSE <<[cleared[1] EXCEPT !.text = points[1]]>>
       \o [j \in 1..(Len(points) - 1) |-> [EmptyPara EXCEPT !.text = points[j + 1], !.level = 0]]

\* shape.text = s, s one line
set_text(s) == <<[EmptyPara EXCEPT !.text = s]>>

\* ------------------------------------------------- populate_slide_content
\* lines 237-242: the scan; each match overwrites the variable
RECURSIVE placeholder_scan(_, _, _, _)
placeholder_scan(shapes, i, title_shape, content_shape) ==
  IF i > Len(shapes) THEN [title_shape |-> title_shape, content_shape |-> content_shape]
  ELSE IF shapes[i].is_placeholder /\ shapes[i].ph_type = "TITLE"
       THEN placeholder_scan(shapes, i + 1, i, content_shape)
  ELSE IF shapes[i].is_placeholder /\ shapes[i].ph_type \in {"BODY", "OBJECT"}
       THEN placeholder_scan(shapes, i + 1, title_shape, i)
  ELSE placeholder_scan(shapes, i + 1, title_shape, content_shape)

\* lines 225-262; shapes are the slide's shapes, the result the shapes after
populate_slide_content(shapes, content) ==
  LET found == placeholder_scan(shapes, 1, 0, 0)
      t == found.title_shape
      c == found.content_shape
  IN [i \in DOMAIN shapes |->
        IF i = t /\ content.title # ""
        THEN [shapes[i] EXCEPT !.paras = set_text(content.title)]
        ELSE IF i = c /\ content.points # <<>>
        THEN [shapes[i] EXCEPT !.paras = fill_points(tf_clear(shapes[i].paras), content.points)]
        ELSE shapes[i]]

\* ------------------------------------------------- create_basic_presentation
\* slide.shapes.title: the first placeholder with idx 0 (a title or centred title)
shapes_title(shapes) ==
  LET S == {i \in DOMAIN shapes :
              shapes[i].is_placeholder /\ shapes[i].ph_type \in {"TITLE", "CENTER_TITLE"}}
  IN IF S = {} THEN 0 ELSE CHOOSE i \in S : \A j \in S : i <= j

\* lines 281-295: the first placeholder of type BODY
first_body(shapes) ==
  LET S == {i \in DOMAIN shapes : shapes[i].is_placeholder /\ shapes[i].ph_type = "BODY"}
  IN IF S = {} THEN 0 ELSE CHOOSE i \in S : \A j \in S : i <= j

\* lines 276-295: what the fallback builder writes into one new slide
basic_fill(shapes, content) ==
  LET t == shapes_title(shapes)
      b == first_body(shapes)
  IN [i \in DOMAIN shapes |->
        IF i = t THEN [shapes[i] EXCEPT !.paras = set_text(content.title)]
        ELSE IF i = b
        THEN [shapes[i] EXCEPT !.paras = fill_points(tf_clear(shapes[i].paras), content.points)]
        ELSE shapes[i]]

\* ------------------------------------------------- shape replication
\* What a call gives back: the target slide's shapes and whether an exception
\* left the function.
Ret(shapes) == [shapes |-> shapes, raised |-> FALSE]
Raise(shapes) == [shapes |-> shapes, raised |-> TRUE]

\* Where the library can fail while one shape is copied:
\*   type    reading source_shape.shape_type             (line 131)
\*   read    reading source_shape.image.blob             (line 153)
\*   insert  shapes.add_picture / shapes.add_textbox     (lines 157, 177)
\*   attr    pic.rotation = ... / textbox.text = ...     (lines 167, 185)
\*   format  inside copy_text_formatting, at paragraph "at"  (lines 213-220)
Mode(k, a) == [kind |-> k, at |-> a]
Ok == Mode("ok", 0)

ModesFor(shape) ==
  IF shape.is_placeholder THEN {Ok}
  ELSE
  {Ok, Mode("type", 0)}
  \cup (IF shape.shape_type = "PICTURE"
        THEN {Mode("read", 0), Mode("insert", 0), Mode("attr", 0)} ELSE {})
  \cup (IF shape.shape_type \in {"TEXT_BOX", "AUTO_SHAPE"} /\ shape.has_text
        THEN {Mode("insert", 0), Mode("attr", 0)}
             \cup {Mode("format", j) : j \in 1..Len(shape.paras)}
        ELSE {})

\* copy_image_shape passing height and width to add_picture in the wrong order
copy_image_shape_swapped(source_shape, target, mode) ==
  IF mode.kind \in {"read", "insert"} THEN Ret(target)
  ELSE LET pic == Shp(FALSE, "none", "PICTURE",
                      [left |-> source_shape.box.left, top |-> source_shape.box.top,
                       width |-> source_shape.box.height, height |-> source_shape.box.width],
                      0, source_shape.blob, FALSE, <<>>)
       IN IF mode.kind = "attr" THEN Ret(Append(target, pic))
          ELSE Ret(Append(target, [pic EXCEPT !.rotation = source_shape.rotation]))

\* lines 149-170
copy_image_shape(source_shape, target, mode) ==
  IF mode.kind \in {"read", "insert"} THEN Ret(target)
  ELSE LET pic == Shp(FALSE, "none", "PICTURE",
                      [left |-> source_shape.box.left, top |-> source_shape.box.top,
                       width |-> source_shape.box.width, height |-> source_shape.box.height],
                      0, source_shape.blob, FALSE, <<>>)
       IN IF mode.kind = "attr" THEN Ret(Append(target, pic))
          ELSE Ret(Append(target, [pic EXCEPT !.rotation = source_shape.rotation]))

\* lines 209-223: pairwise over zip(source paragraphs, target paragraphs); an
\* exception at paragraph mode.at ends the loop and is caught
copy_text_formatting(source_paras, target_paras, mode) ==
  LET n == IF Len(source_paras) < Len(target_paras) THEN Len(source_paras)
           ELSE Len(target_paras)
      stop == IF mode.kind = "format" THEN mode.at ELSE n + 1
  IN [j \in DOMAIN target_paras |->
        IF j <= n /\ j < stop
        THEN [target_paras[j] EXCEPT
                !.fmt = [alignment |-> source_paras[j].fmt.alignment,
                         font_name |-> IF source_paras[j].fmt.font_name # "none"
                                       THEN source_paras[j].fmt.font_name
                                       ELSE target_paras[j].fmt.font_name,
                         font_size |-> IF source_paras[j].fmt.font_size # "none"
                                       THEN source_paras[j].fmt.font_size
                                       ELSE target_paras[j].fmt.font_size]]
        ELSE target_paras[j]]

\* lines 172-197
copy_text_or_shape(source_shape, target, mode) ==
  IF source_shape.has_text
  THEN IF mode.kind = "insert" THEN Ret(target)
       ELSE LET textbox == Shp(FALSE, "none", "TEXT_BOX",
                               [left |-> source_shape.box.left, top |-> source_shape.box.top,
                                width |-> source_shape.box.width,
                                height |-> source_shape.box.height],
                               0, "none", TRUE, <<EmptyPara>>)
                \* textbox.text = source_shape.text: one fresh paragraph per line
                lines == [j \in DOMAIN source_shape.paras |->
                            [EmptyPara EXCEPT !.text = source_shape.paras[j].text]]
            IN IF mode.kind = "attr" THEN Ret(Append(target, textbox))
               ELSE Ret(Append(target,
                      [textbox EXCEPT
                         !.paras = copy_text_formatting(source_shape.paras, lines, mode)]))
  ELSE Ret(target)

\* lines 199-207
copy_generic_shape(source_shape, target) == Ret(target)

\* copy_shape_to_slide without the handler of line 146
copy_shape_to_slide_uncaught(source_shape, target, mode) ==
  IF mode.kind = "type" THEN Raise(target)
  ELSE IF source_shape.shape_type = "PICTURE"
       THEN Ret(copy_image_shape(source_shape, target, mode).shapes)
  ELSE IF source_shape.shape_type \in {"TEXT_BOX", "AUTO_SHAPE"}
       THEN Ret(copy_text_or_shape(source_shape, target, mode).shapes)
  ELSE Ret(copy_generic_shape(source_shape, target).shapes)

\* lines 124-147
copy_shape_to_slide(source_shape, target, mode) ==
  IF mode.kind = "type" THEN Ret(target)
  ELSE IF source_shape.shape_type = "PICTURE"
       THEN Ret(copy_image_shape(source_shape, target, mode).shapes)
  ELSE IF source_shape.shape_type \in {"TEXT_BOX", "AUTO_SHAPE"}
       THEN Ret(copy_text_or_shape(source_shape, target, mode).shapes)
  ELSE Ret(copy_generic_shape(source_shape, target).shapes)

\* lines 118-119: the loop over shapes_to_copy, from position k on; modes[i] is
\* what happens while template shape i is copied
RECURSIVE copy_each(_, _, _, _, _)
copy_each(template_shapes, shapes_to_copy, k, target, modes) ==
  IF k > Len(shapes_to_copy) THEN Ret(target)
  ELSE LET i == shapes_to_copy[k]
           r == copy_shape_to_slide(template_shapes[i], target, modes[i])
       IN IF r.raised THEN Raise(r.shapes)
          ELSE copy_each(template_shapes, shapes_to_copy, k + 1, r.shapes, modes)

\* lines 113-115: the indices, in order, of the non-placeholder shapes
RECURSIVE non_placeholders(_, _)
non_placeholders(shapes, i) ==
  IF i > Len(shapes) THEN <<>>
  ELSE IF ~shapes[i].is_placeholder THEN <<i>> \o non_placeholders(shapes, i + 1)
  ELSE non_placeholders(shapes, i + 1)

\* lines 104-122; enum_fails: iterating template_slide.shapes raises
copy_template_visual_elements(template_shapes, new_shapes, modes, enum_fails) ==
  IF enum_fails THEN Ret(new_shapes)
  ELSE Ret(copy_each(template_shapes, non_placeholders(template_shapes, 1), 1,
                     new_shapes, modes).shapes)

\* every assignment of a failure mode to the shapes of a slide
ModeAssignments(shapes) ==
  {m \in [DOMAIN shapes -> UNION {ModesFor(shapes[i]) : i \in DOMAIN shapes} \cup {Ok}] :
     \A i \in DOMAIN shapes : m[i] \in ModesFor(shapes[i])}

\* slides.add_slide(layout): the layout's placeholders, new
clone_layout_placeholders(layout) == [j \in DOMAIN layout.phs |-> NewPlaceholder(layout.phs[j])]

\* ------------------------------------------------- documents
\* a slide layout of a document: its owner, its index in slide_layouts
\* (from 1 here, from 0 in the source) and its placeholders' types
Layout(owner, idx, phs) == [owner |-> owner, idx |-> idx, phs |-> phs]
NoLayout == Layout("none", 0, <<>>)

\* a slide; item is the position in slide_data of the content item it was
\* built from (0: an authored slide of the template), copy_failed whether a
\* shape copy met a failure while the slide was built
Slide(layout, shapes, item, copy_failed) ==
  [layout |-> layout, shapes |-> shapes, item |-> item, copy_failed |-> copy_failed]
NoSlide == Slide(NoLayout, <<>>, 0 - 1, FALSE)

\* a Presentation: sldIdLst holds the rIds of the slides in order, rels maps
\* an rId of the presentation part to the slide it relates to
NoDoc == [owner |-> "none", layouts |-> <<>>, sldIdLst |-> <<>>, rels |-> <<>>]

\* Presentation(path) on a deck file
load_presentation(file, owner) ==
  LET layouts == [j \in DOMAIN file.layouts |-> Layout(owner, j, file.layouts[j])]
  IN [owner |-> owner,
      layouts |-> layouts,
      sldIdLst |-> [j \in DOMAIN file.slides |-> j],
      rels |-> [j \in DOMAIN file.slides |->
                  Slide(layouts[file.slides[j].layout], file.slides[j].shapes, 0, FALSE)]]

\* Presentation(): the library's default deck, no slides
new_presentation(default_layouts) ==
  [owner |-> "prs",
   layouts |-> [j \in DOMAIN default_layouts |-> Layout("prs", j, default_layouts[j])],
   sldIdLst |-> <<>>,
   rels |-> <<>>]

\* prs.slides: the slides the list refers to, in order
doc_slides(doc) == [j \in DOMAIN doc.sldIdLst |-> doc.rels[doc.sldIdLst[j]]]

\* the presentation part's next unused rId
next_rId(doc) == CHOOSE n \in 1..(Cardinality(DOMAIN doc.rels) + 1) : n \notin DOMAIN doc.rels

\* part.drop_rel(rId)
drop_rel(doc, rId) ==
  [doc EXCEPT !.rels = [r \in (DOMAIN doc.rels) \ {rId} |-> doc.rels[r]]]

\* del slides._sldIdLst[i], i an index from 0
del_sldId(doc, i) ==
  [doc EXCEPT !.sldIdLst = [j \in 1..(Len(doc.sldIdLst) - 1) |->
                              IF j <= i THEN doc.sldIdLst[j] ELSE doc.sldIdLst[j + 1]]]

\* add_slide putting the new slide first in the list
add_slide_front(doc, slide) ==
  LET rId == next_rId(doc)
  IN [doc EXCEPT !.sldIdLst = <<rId>> \o doc.sldIdLst,
                 !.rels = [r \in (DOMAIN doc.rels) \cup {rId} |->
                             IF r = rId THEN slide ELSE doc.rels[r]]]

\* slides.add_slide(layout), the slide then holding `shapes`
add_slide(doc, slide) ==
  LET rId == next_rId(doc)
  IN [doc EXCEPT !.sldIdLst = Append(doc.sldIdLst, rId),
                 !.rels = [r \in (DOMAIN doc.rels) \cup {rId} |->
                             IF r = rId THEN slide ELSE doc.rels[r]]]

\* lines 87-102
duplicate_slide_with_content(doc, layout, template_slide, content, k, modes, enum_fails) ==
  LET new_shapes == clone_layout_placeholders(layout)
      copied == IF template_slide # NoSlide
                THEN copy_template_visual_elements(template_slide.shapes, new_shapes,
                                                   modes, enum_fails).shapes
                ELSE new_shapes
      failed == template_slide # NoSlide
                /\ (enum_fails \/ \E i \in DOMAIN modes : modes[i] # Ok)
  IN add_slide(doc, Slide(layout, populate_slide_content(copied, content), k, failed))

\* lines 274-295: one slide of the fallback deck
basic_slide(doc, layout, content, k) ==
  add_slide(doc, Slide(layout, basic_fill(clone_layout_placeholders(layout), content), k, FALSE))

\* range(len(slides) - 1): the last slide is left out
range_list_short(n) == [j \in 1..(n - 1) |-> j - 1]
\* the loop of line 33 without reversed()
removal_order_forward(slide_indices) == slide_indices

\* line 32 and line 33: list(range(len(slides))) and the order the loop visits it in
range_list(n) == [j \in 1..n |-> j - 1]
removal_order(slide_indices) ==
  [j \in DOMAIN slide_indices |-> slide_indices[Len(slide_indices) + 1 - j]]

\* ------------------------------------------------- state
VARIABLES
  pc,                    \* where create_ppt_from_template is
  slide_data,            \* the content items
  template_file,         \* what template_path names: [exists, layouts, slides]
  template_prs,          \* line 22
  template_slide,        \* line 25: index into template_prs.slides, 0 for None
  template_slide_layout, \* line 26
  new_prs,               \* line 29
  slide_indices,         \* line 32
  pos,                   \* position of the loop of line 33 in its iteration order
  k,                     \* position of the loops of lines 39 and 273 in slide_data
  prs,                   \* line 268
  layout,                \* line 271
  output_file,           \* what output_path names: [state, slides]
  loads,                 \* calls of Presentation(template_path) so far
  saves,                 \* calls of save(output_path) so far
  u_pc, u_in, u_out      \* a single call of one helper: its input and result

vars == <<pc, slide_data, template_file, template_prs, template_slide,
          template_slide_layout, new_prs, slide_indices, pos, k, prs, layout,
          output_file, loads, saves, u_pc, u_in, u_out>>

unit_vars == <<u_pc, u_in, u_out>>
main_vars == <<pc, slide_data, template_file, template_prs, template_slide,
               template_slide_layout, new_prs, slide_indices, pos, k, prs, layout,
               output_file, loads, saves>>

\* ------------------------------------------------- inputs
ItemCatalog == {Item("t1", <<"a", "b">>), Item("", <<>>)}

\* placeholder types of the layouts a template may hold
\* the slide_layouts of a template: one layout, or two
TemplateLayouts == {<<<<"TITLE", "BODY">>>>,
                    <<<<"OTHER">>, <<"TITLE", "OBJECT", "OBJECT">>>>}

\* the non-placeholder shapes of an authored slide
ExtrasCatalog == {<<>>, <<Group1, Pic1>>}

\* an authored slide: the placeholders of its layout, then its other shapes
AuthoredSlides(layouts) ==
  {[layout |-> j,
    shapes |-> [n \in DOMAIN layouts[j] |-> PhWith(layouts[j][n], <<Para("old", 0, NoFmt)>>)]
               \o extras] :
     j \in DOMAIN layouts, extras \in ExtrasCatalog}

NoTemplate == [exists |-> FALSE, layouts |-> <<>>, slides |-> <<>>]
TemplateFiles ==
  {NoTemplate}
  \cup UNION {{[exists |-> TRUE, layouts |-> ls, slides |-> ss] :
                 ss \in SeqsUpTo(AuthoredSlides(ls), MaxSlides)} : ls \in TemplateLayouts}

\* the layouts of the deck Presentation() gives
DefaultLayouts == {<<<<"TITLE", "BODY">>>>,
                   <<<<"CENTER_TITLE", "SUBTITLE">>, <<"TITLE", "OBJECT">>>>}

NoFile == [state |-> "none", slides |-> <<>>]
BrokenFile == [state |-> "broken", slides |-> <<>>]
Deck(slides) == [state |-> "deck", slides |-> slides]

UnitOff == [op |-> "off"]

Init ==
  /\ pc = "start"
  /\ slide_data \in SeqsUpTo(ItemCatalog, MaxItems)
  /\ template_file \in TemplateFiles
  /\ template_prs = NoDoc
  /\ template_slide = 0
  /\ template_slide_layout = NoLayout
  /\ new_prs = NoDoc
  /\ slide_indices = <<>>
  /\ pos = 0
  /\ k = 0
  /\ prs = NoDoc
  /\ layout = NoLayout
  /\ output_file = NoFile
  /\ loads = 0
  /\ saves = 0
  /\ u_pc = "off"
  /\ u_in = UnitOff
  /\ u_out = UnitOff

\* ------------------------------------------------- create_ppt_from_template
TemplateSteps == {"load_template", "find", "layout", "load_new", "indices",
                  "remove", "del", "build", "save"}
FallbackSteps == {"fb_new", "fb_build", "fb_save"}

\* lines 50-53: the handler.  Nothing after line 50 reads the locals of the
\* try block, so they are dropped here.
EnterFallback ==
  /\ pc' = "fb_new"
  /\ template_prs' = NoDoc
  /\ template_slide' = 0
  /\ template_slide_layout' = NoLayout
  /\ new_prs' = NoDoc
  /\ slide_indices' = <<>>
  /\ pos' = 0
  /\ k' = 0
  /\ UNCHANGED <<slide_data, template_file, prs, layout, unit_vars>>

\* lines 16-18
Start ==
  /\ pc = "start"
  /\ pc' = IF ~template_file.exists THEN "fb_new" ELSE "load_template"
  /\ UNCHANGED <<slide_data, template_file, template_prs, template_slide,
                 template_slide_layout, new_prs, slide_indices, pos, k, prs, layout,
                 output_file, loads, saves, unit_vars>>

\* line 22
LoadTemplate ==
  /\ pc = "load_template"
  /\ template_prs' = load_presentation(template_file, "template_prs")
  /\ loads' = loads + 1
  /\ pc' = "find"
  /\ UNCHANGED <<slide_data, template_file, template_slide, template_slide_layout,
                 new_prs, slide_indices, pos, k, prs, layout, output_file, saves, unit_vars>>

\* line 25
FindBest ==
  /\ pc = "find"
  /\ template_slide' = find_best_content_slide(doc_slides(template_prs))
  /\ pc' = "layout"
  /\ UNCHANGED <<slide_data, template_file, template_prs, template_slide_layout,
                 new_prs, slide_indices, pos, k, prs, layout, output_file, loads, saves, unit_vars>>

\* line 26; slide_layouts[1] raises IndexError on a deck with one layout
ChooseLayout ==
  /\ pc = "layout"
  /\ IF template_slide # 0
     THEN /\ template_slide_layout' = doc_slides(template_prs)[template_slide].layout
          /\ pc' = "load_new"
          /\ UNCHANGED <<slide_data, template_file, template_prs, template_slide, new_prs,
                         slide_indices, pos, k, prs, layout, unit_vars>>
     ELSE IF Len(template_prs.layouts) > 1
     THEN /\ template_slide_layout' = template_prs.layouts[2]
          /\ pc' = "load_new"
          /\ UNCHANGED <<slide_data, template_file, template_prs, template_slide, new_prs,
                         slide_indices, pos, k, prs, layout, unit_vars>>
     ELSE EnterFallback
  /\ UNCHANGED <<output_file, loads, saves>>

\* line 29
LoadNew ==
  /\ pc = "load_new"
  /\ new_prs' = load_presentation(template_file, "new_prs")
  /\ loads' = loads + 1
  /\ pc' = "indices"
  /\ UNCHANGED <<slide_data, template_file, template_prs, template_slide,
                 template_slide_layout, slide_indices, pos, k, prs, layout, output_file,
                 saves, unit_vars>>

\* line 32
SlideIndices ==
  /\ pc = "indices"
  /\ slide_indices' = range_list(Len(new_prs.sldIdLst))
  /\ pos' = 1
  /\ pc' = "remove"
  /\ UNCHANGED <<slide_data, template_file, template_prs, template_slide,
                 template_slide_layout, new_prs, k, prs, layout, output_file, loads,
                 saves, unit_vars>>

\* the index the loop of line 33 is at
current_index == removal_order(slide_indices)[pos]
valid_index(i, seq) == 0 <= i /\ i < Len(seq)

\* lines 34-35: _sldIdLst[i] raises IndexError when i is no index of the list
DropRel ==
  /\ pc = "remove"
  /\ pos <= Len(slide_indices)
  /\ IF valid_index(current_index, new_prs.sldIdLst)
     THEN /\ new_prs' = drop_rel(new_prs, new_prs.sldIdLst[current_index + 1])
          /\ pc' = "del"
          /\ UNCHANGED <<slide_data, template_file, template_prs, template_slide,
                         template_slide_layout, slide_indices, pos, k, prs, layout, unit_vars>>
     ELSE EnterFallback
  /\ UNCHANGED <<output_file, loads, saves>>

\* line 36
DelEntry ==
  /\ pc = "del"
  /\ new_prs' = del_sldId(new_prs, current_index)
  /\ pos' = pos + 1
  /\ pc' = "remove"
  /\ UNCHANGED <<slide_data, template_file, template_prs, template_slide,
                 template_slide_layout, slide_indices, k, prs, layout, output_file,
                 loads, saves, unit_vars>>

\* line 33, the loop's end
RemovalDone ==
  /\ pc = "remove"
  /\ pos > Len(slide_indices)
  /\ pc' = "build"
  /\ k' = 1
  /\ UNCHANGED <<slide_data, template_file, template_prs, template_slide,
                 template_slide_layout, new_prs, slide_indices, pos, prs, layout,
                 output_file, loads, saves, unit_vars>>

\* the slide line 25 chose
exemplar == IF template_slide # 0 THEN doc_slides(template_prs)[template_slide] ELSE NoSlide

\* lines 39-45: one iteration
BuildSlide ==
  /\ pc = "build"
  /\ k <= Len(slide_data)
  /\ \E modes \in ModeAssignments(exemplar.shapes),
        enum_fails \in (IF exemplar = NoSlide THEN {FALSE} ELSE BOOLEAN) :
       new_prs' = duplicate_slide_with_content(new_prs, template_slide_layout, exemplar,
                                               slide_data[k], k, modes, enum_fails)
  /\ k' = k + 1
  /\ UNCHANGED <<pc, slide_data, template_file, template_prs, template_slide,
                 template_slide_layout, slide_indices, pos, prs, layout, output_file,
                 loads, saves, unit_vars>>

\* line 39, the loop's end
BuildDone ==
  /\ pc = "build"
  /\ k > Len(slide_data)
  /\ pc' = "save"
  /\ UNCHANGED <<slide_data, template_file, template_prs, template_slide,
                 template_slide_layout, new_prs, slide_indices, pos, k, prs, layout,
                 output_file, loads, saves, unit_vars>>

\* returning without new_prs.save(output_path)
SaveSkipped ==
  /\ pc = "save"
  /\ pc' = "done"
  /\ UNCHANGED <<slide_data, template_file, template_prs, template_slide,
                 template_slide_layout, new_prs, slide_indices, pos, k, prs, layout,
                 output_file, loads, saves, unit_vars>>

\* lines 47-48
Save ==
  /\ pc = "save"
  /\ output_file' = Deck(doc_slides(new_prs))
  /\ saves' = saves + 1
  /\ pc' = "done"
  /\ UNCHANGED <<slide_data, template_file, template_prs, template_slide,
                 template_slide_layout, new_prs, slide_indices, pos, k, prs, layout,
                 loads, unit_vars>>

\* line 47 raising: output_path holds whatever the failed save left
SaveFails ==
  /\ pc = "save"
  /\ output_file' = BrokenFile
  /\ saves' = saves + 1
  /\ UNCHANGED loads
  /\ EnterFallback

\* the exception leaving create_ppt_from_template instead of reaching line 50
TemplateFailsUncaught ==
  /\ pc \in TemplateSteps \ {"save"}
  /\ pc' = "raised"
  /\ loads' = IF pc \in {"load_template", "load_new"} THEN loads + 1 ELSE loads
  /\ UNCHANGED <<slide_data, template_file, template_prs, template_slide,
                 template_slide_layout, new_prs, slide_indices, pos, k, prs, layout,
                 output_file, saves, unit_vars>>

\* an exception in any other statement of lines 22-45
TemplateFails ==
  /\ pc \in TemplateSteps \ {"save"}
  /\ loads' = IF pc \in {"load_template", "load_new"} THEN loads + 1 ELSE loads
  /\ UNCHANGED <<output_file, saves>>
  /\ EnterFallback

\* lines 268-271
BasicNew ==
  /\ pc = "fb_new"
  /\ \E default_layouts \in DefaultLayouts :
       LET doc == new_presentation(default_layouts)
       IN /\ prs' = doc
          /\ layout' = IF Len(doc.layouts) > 1 THEN doc.layouts[2] ELSE doc.layouts[1]
  /\ k' = 1
  /\ pc' = "fb_build"
  /\ UNCHANGED <<slide_data, template_file, template_prs, template_slide,
                 template_slide_layout, new_prs, slide_indices, pos, output_file, loads,
                 saves, unit_vars>>

\* lines 273-295: one iteration
BasicSlide ==
  /\ pc = "fb_build"
  /\ k <= Len(slide_data)
  /\ prs' = basic_slide(prs, layout, slide_data[k], k)
  /\ k' = k + 1
  /\ UNCHANGED <<pc, slide_data, template_file, template_prs, template_slide,
                 template_slide_layout, new_prs, slide_indices, pos, layout, output_file,
                 loads, saves, unit_vars>>

\* line 273, the loop's end
BasicDone ==
  /\ pc = "fb_build"
  /\ k > Len(slide_data)
  /\ pc' = "fb_save"
  /\ UNCHANGED <<slide_data, template_file, template_prs, template_slide,
                 template_slide_layout, new_prs, slide_indices, pos, k, prs, layout,
                 output_file, loads, saves, unit_vars>>

\* lines 297-298
BasicSave ==
  /\ pc = "fb_save"
  /\ output_file' = Deck(doc_slides(prs))
  /\ saves' = saves + 1
  /\ pc' = "done"
  /\ UNCHANGED <<slide_data, template_file, template_prs, template_slide,
                 template_slide_layout, new_prs, slide_indices, pos, k, prs, layout,
                 loads, unit_vars>>

\* an exception in create_basic_presentation: nothing catches it
BasicFails ==
  /\ pc \in FallbackSteps
  /\ pc' = "raised"
  /\ saves' = IF pc = "fb_save" THEN saves + 1 ELSE saves
  /\ output_file' = IF pc = "fb_save" THEN BrokenFile ELSE output_file
  /\ UNCHANGED <<slide_data, template_file, template_prs, template_slide,
                 template_slide_layout, new_prs, slide_indices, pos, k, prs, layout,
                 loads, unit_vars>>

Next ==
  \/ Start
  \/ LoadTemplate
  \/ FindBest
  \/ ChooseLayout
  \/ LoadNew
  \/ SlideIndices
  \/ DropRel
  \/ DelEntry
  \/ RemovalDone
  \/ BuildSlide
  \/ BuildDone
  \/ Save
  \/ SaveFails
  \/ TemplateFails
  \/ BasicNew
  \/ BasicSlide
  \/ BasicDone
  \/ BasicSave
  \/ BasicFails

Spec == Init /\ [][Next]_vars

\* ------------------------------------------------- single calls of the helpers
\* In these specifications create_ppt_from_template is not running; one helper
\* is called once on an input drawn from a bounded set.
MainOff ==
  /\ pc = "off"
  /\ slide_data = <<>>
  /\ template_file = NoTemplate
  /\ template_prs = NoDoc
  /\ template_slide = 0
  /\ template_slide_layout = NoLayout
  /\ new_prs = NoDoc
  /\ slide_indices = <<>>
  /\ pos = 0
  /\ k = 0
  /\ prs = NoDoc
  /\ layout = NoLayout
  /\ output_file = NoFile
  /\ loads = 0
  /\ saves = 0

UnitIn(op, slides, content, target) ==
  [op |-> op, slides |-> slides, content |-> content, target |-> target]

\* -- find_best_content_slide on a deck
FindShapes == {PhWith("TITLE", <<EmptyPara>>), PhWith("BODY", <<EmptyPara>>),
               PhWith("OBJECT", <<EmptyPara>>), Pic1}
FindSlides == {Slide(NoLayout, shapes, 0, FALSE) : shapes \in SeqsUpTo(FindShapes, MaxFindShapes)}

InitFind ==
  /\ MainOff
  /\ u_pc = "call"
  /\ u_in \in {UnitIn("find", slides, Item("", <<>>), <<>>) :
                 slides \in SeqsUpTo(FindSlides, MaxFindSlides)}
  /\ u_out = UnitOff

UnitFind ==
  /\ u_pc = "call"
  /\ u_in.op = "find"
  /\ u_out' = [best |-> find_best_content_slide(u_in.slides)]
  /\ u_pc' = "ret"
  /\ UNCHANGED <<u_in, main_vars>>

SpecFind == InitFind /\ [][UnitFind]_vars

\* -- populate_slide_content and the fallback builder's fill on one slide
PopShapes == {PhWith("TITLE", <<Para("old", 0, NoFmt)>>),
              PhWith("BODY", <<Para("x", 1, NoFmt), Para("y", 2, NoFmt)>>),
              PhWith("OBJECT", <<EmptyPara>>),
              TextBox1}
PopItems == {Item("t1", <<"a", "b", "c">>), Item("t2", <<"a">>), Item("", <<>>)}

InitPopulate ==
  /\ MainOff
  /\ u_pc = "call"
  /\ u_in \in {UnitIn(op, <<shapes>>, content, <<>>) :
                 op \in {"populate", "basic"},
                 shapes \in SeqsUpTo(PopShapes, MaxPopShapes),
                 content \in PopItems}
  /\ u_out = UnitOff

UnitPopulate ==
  /\ u_pc = "call"
  /\ u_in.op = "populate"
  /\ u_out' = [shapes |-> populate_slide_content(u_in.slides[1], u_in.content)]
  /\ u_pc' = "ret"
  /\ UNCHANGED <<u_in, main_vars>>

UnitBasicFill ==
  /\ u_pc = "call"
  /\ u_in.op = "basic"
  /\ u_out' = [shapes |-> basic_fill(u_in.slides[1], u_in.content)]
  /\ u_pc' = "ret"
  /\ UNCHANGED <<u_in, main_vars>>

SpecPopulate == InitPopulate /\ [][UnitPopulate \/ UnitBasicFill]_vars

\* -- copy_template_visual_elements from a template slide onto a new slide
CopyShapes == {PhWith("TITLE", <<Para("old", 0, NoFmt)>>), Pic1, TextBox1, AutoShape1,
               AutoShape2, Group1}
CopyTargets == {<<>>, <<"TITLE", "BODY">>}

InitCopy ==
  /\ MainOff
  /\ u_pc = "call"
  /\ u_in \in {UnitIn("copy", <<shapes>>, Item("", <<>>),
                       clone_layout_placeholders(Layout("new_prs", 1, phs))) :
                 shapes \in SeqsUpTo(CopyShapes, MaxCopyShapes),
                 phs \in CopyTargets}
  /\ u_out = UnitOff

UnitCopy ==
  /\ u_pc = "call"
  /\ u_in.op = "copy"
  /\ \E modes \in ModeAssignments(u_in.slides[1]), enum_fails \in BOOLEAN :
       LET r == copy_template_visual_elements(u_in.slides[1], u_in.target, modes, enum_fails)
       IN u_out' = [shapes |-> r.shapes, raised |-> r.raised, modes |-> modes,
                    enum_fails |-> enum_fails]
  /\ u_pc' = "ret"
  /\ UNCHANGED <<u_in, main_vars>>

SpecCopy == InitCopy /\ [][UnitCopy]_vars

\* ================================================= properties

\* ------------------------------------------------- C3
\* the score the claim gives a slide: 2 for having a title placeholder, 3 for
\* having a body or object placeholder, 5 more for having both
stated_score(slide) ==
  (IF has_title(slide.shapes) THEN 2 ELSE 0)
  + (IF has_content_area(slide.shapes) THEN 3 ELSE 0)
  + (IF has_title(slide.shapes) /\ has_content_area(slide.shapes) THEN 5 ELSE 0)

\* the first slide, in document order, of the highest stated score
stated_best(slides) ==
  CHOOSE i \in DOMAIN slides :
    /\ \A j \in DOMAIN slides : stated_score(slides[j]) <= stated_score(slides[i])
    /\ \A j \in 1..(i - 1) : stated_score(slides[j]) < stated_score(slides[i])

\* C3: find_best_content_slide returns none on a deck without slides and
\* otherwise, when some slide has a title, body or object placeholder, the
\* first slide of the highest score, a slide's score being 2 for a title
\* placeholder, 3 for a body-or-object placeholder and 5 more for both.
C3_BestSlide ==
  (u_pc = "ret" /\ u_in.op = "find") =>
     IF u_in.slides = <<>> THEN u_out.best = 0
     ELSE (\E i \in DOMAIN u_in.slides : stated_score(u_in.slides[i]) > 0)
            => u_out.best = stated_best(u_in.slides)

\* ------------------------------------------------- C4
first_of(shapes, types) ==
  LET S == {i \in DOMAIN shapes : shapes[i].is_placeholder /\ shapes[i].ph_type \in types}
  IN IF S = {} THEN 0 ELSE CHOOSE i \in S : \A j \in S : i <= j

texts(paras) == [j \in DOMAIN paras |-> paras[j].text]

\* C4: populate_slide_content writes the title into the first title
\* placeholder and the points into the first body-or-object placeholder of
\* the slide; later placeholders of the same kind keep their text.
C4_FirstPlaceholder ==
  (u_pc = "ret" /\ u_in.op = "populate") =>
     LET before == u_in.slides[1]
         after == u_out.shapes
         t == first_of(before, {"TITLE"})
         c == first_of(before, {"BODY", "OBJECT"})
     IN /\ (t # 0 /\ u_in.content.title # "")
              => texts(after[t].paras) = <<u_in.content.title>>
        /\ (c # 0 /\ u_in.content.points # <<>>)
              => texts(after[c].paras) = u_in.content.points
        /\ \A j \in DOMAIN before :
              (/\ before[j].is_placeholder
               /\ \/ (before[j].ph_type = "TITLE" /\ j > t)
                  \/ (before[j].ph_type \in {"BODY", "OBJECT"} /\ j > c))
              => after[j] = before[j]

\* ------------------------------------------------- C5
\* the placeholder the call fills with the points, 0 if none
filled_placeholder ==
  IF u_in.op = "populate" THEN placeholder_scan(u_in.slides[1], 1, 0, 0).content_shape
  ELSE first_body(u_in.slides[1])

\* C5: for non-empty points, whatever the placeholder held before, the
\* paragraphs of the placeholder that populate_slide_content (or the fallback
\* builder) fills are exactly the points, in order, each at level 0.
C5_ParagraphsArePoints ==
  (/\ u_pc = "ret"
   /\ u_in.op \in {"populate", "basic"}
   /\ u_in.content.points # <<>>
   /\ filled_placeholder # 0)
  => LET paras == u_out.shapes[filled_placeholder].paras
     IN /\ texts(paras) = u_in.content.points
        /\ \A j \in DOMAIN paras : paras[j].level = 0

\* ------------------------------------------------- C6
\* the shapes copy_shape_to_slide has a branch that copies
copyable(shape) ==
  /\ ~shape.is_placeholder
  /\ \/ shape.shape_type = "PICTURE"
     \/ (shape.shape_type \in {"TEXT_BOX", "AUTO_SHAPE"} /\ shape.has_text)

\* the indices, in order from i on, of the copyable shapes whose copy met a
\* mode of one of the given kinds
RECURSIVE with_modes(_, _, _, _)
with_modes(shapes, modes, kinds, i) ==
  IF i > Len(shapes) THEN <<>>
  ELSE IF copyable(shapes[i]) /\ modes[i].kind \in kinds
       THEN <<i>> \o with_modes(shapes, modes, kinds, i + 1)
  ELSE with_modes(shapes, modes, kinds, i + 1)

\* the shapes the call added to the target slide
added == SubSeq(u_out.shapes, Len(u_in.target) + 1, Len(u_out.shapes))

\* the call did not raise, left the target's placeholders as they were, added
\* no placeholder, and added one shape, at the source's position and of its
\* kind, for each copyable shape whose copy met a mode of the given kinds
copied_exactly(kinds) ==
  LET src == u_in.slides[1]
      want == with_modes(src, u_out.modes, kinds, 1)
  IN /\ ~u_out.raised
     /\ Len(u_out.shapes) >= Len(u_in.target)
     /\ SubSeq(u_out.shapes, 1, Len(u_in.target)) = u_in.target
     /\ \A n \in DOMAIN added : ~added[n].is_placeholder
     /\ IF u_out.enum_fails THEN added = <<>>
        ELSE /\ Len(added) = Len(want)
             /\ \A n \in DOMAIN want :
                  /\ added[n].box = src[want[n]].box
                  /\ added[n].shape_type =
                       (IF src[want[n]].shape_type = "PICTURE" THEN "PICTURE" ELSE "TEXT_BOX")

\* C6 as stated: copy_template_visual_elements never raises; a shape whose
\* copy fails anywhere (image read, insert, attribute or formatting copy) is
\* skipped, the other non-placeholder shapes are copied, and the target keeps
\* exactly its layout's placeholders.
C6_FailingShapeSkipped ==
  (u_pc = "ret" /\ u_in.op = "copy") => copied_exactly({"ok"})

\* C6, amended: copy_template_visual_elements never raises; a shape whose
\* type read, image read or insert fails is skipped, a shape whose rotation,
\* text or formatting copy fails stays on the target as inserted, the other
\* non-placeholder shapes are copied (none when enumerating the template
\* slide's shapes fails), and the target keeps exactly its layout's
\* placeholders.
C6_FailuresIsolated ==
  (u_pc = "ret" /\ u_in.op = "copy") => copied_exactly({"ok", "attr", "format"})

\* a call where the first shape's image read fails and the second, a picture,
\* is copied onto a slide holding placeholders
C6_Witness ==
  /\ u_pc = "ret"
  /\ u_in.op = "copy"
  /\ Len(u_in.slides[1]) = 2
  /\ u_in.target # <<>>
  /\ ~u_out.enum_fails
  /\ u_out.modes[1].kind = "read"
  /\ u_out.modes[2] = Ok
  /\ u_in.slides[1][2].shape_type = "PICTURE"
  /\ Len(added) = 1

\* ------------------------------------------------- C1
\* the call has returned from the template path (no fallback ran)
returned_from_template == pc = "done" /\ prs = NoDoc
\* the call has returned from create_basic_presentation
returned_from_basic == pc = "done" /\ prs # NoDoc

\* C1: whenever create_ppt_from_template returns, on either path, the deck at
\* output_path is the saved document and holds exactly len(slide_data)
\* slides, none of them an authored slide of the template and, after a
\* fallback, none of them a slide of the discarded template build.
C1_SlideCount ==
  pc = "done" =>
    /\ output_file.state = "deck"
    /\ output_file.slides = doc_slides(IF prs # NoDoc THEN prs ELSE new_prs)
    /\ Len(output_file.slides) = Len(slide_data)
    /\ \A j \in DOMAIN output_file.slides :
         /\ output_file.slides[j].item # 0
         /\ (prs # NoDoc => output_file.slides[j].layout.owner = "prs")

\* the template path returned a deck of one slide from a template of two
C1_Witness ==
  /\ returned_from_template
  /\ Len(template_file.slides) = 2
  /\ Len(slide_data) = 1
  /\ Len(output_file.slides) = 1

\* ------------------------------------------------- C2
\* the deck create_basic_presentation builds from slide_data on `layout`
basic_deck ==
  [i \in DOMAIN slide_data |->
     Slide(layout, basic_fill(clone_layout_placeholders(layout), slide_data[i]), i, FALSE)]

\* what C2 asks of every step
C2_Step ==
  /\ (pc \in TemplateSteps /\ pc' \notin (TemplateSteps \cup {"done"}))
       => (/\ pc' = "fb_new"
           /\ slide_data' = slide_data
           /\ new_prs' = NoDoc
           /\ template_prs' = NoDoc
           /\ prs' = NoDoc)
  /\ (pc # "raised" /\ pc' = "raised") => (pc \in FallbackSteps)
  /\ (pc = "fb_new" /\ pc' = "fb_build")
       => (prs'.sldIdLst = <<>> /\ DOMAIN prs'.rels = {})

\* C2: with an existing template, a failure at any step of the template path
\* is caught: the step leads to create_basic_presentation with the same
\* slide_data and none of the documents built so far, which starts from a
\* deck without slides and saves a deck built from slide_data alone; the call
\* raises only out of create_basic_presentation.
C2_FallbackOnFailure ==
  /\ [][C2_Step]_vars
  /\ [](returned_from_basic => output_file = Deck(basic_deck))

\* the template was loaded once, the path failed before the second load, and
\* the fallback returned a deck of two slides
C2_Witness ==
  /\ returned_from_basic
  /\ template_file.exists
  /\ loads = 1
  /\ Len(output_file.slides) = 2

\* ------------------------------------------------- C7
pictures(shapes) ==
  {n \in DOMAIN shapes : ~shapes[n].is_placeholder /\ shapes[n].shape_type = "PICTURE"}

\* the template path is building from, or has built from, an exemplar slide
\* that holds one picture
one_picture_exemplar ==
  /\ pc \in {"build", "save", "done"}
  /\ prs = NoDoc
  /\ template_slide # 0
  /\ Cardinality(pictures(exemplar.shapes)) = 1

exemplar_picture == exemplar.shapes[CHOOSE n \in pictures(exemplar.shapes) : TRUE]

same_box(a, b) ==
  /\ a.box.left = b.box.left
  /\ a.box.top = b.box.top
  /\ a.box.width = b.box.width
  /\ a.box.height = b.box.height

C8_OneLoadOneSave ==
  /\ loads <= 1
  /\ saves <= 1
  /\ (pc = "done" => saves = 1)

\* C8, amended: within one invocation the template is loaded at most twice
\* (line 22 for the analysis, line 29 for the working document; never when
\* there is no template) and save is attempted at most twice (by the template
\* path and, when that path fails, by the fallback); the deck is at
\* output_path exactly when the call has returned, so the one save that
\* succeeds is the last step; a template path that returns has loaded twice
\* and saved once, and a second save attempt is the fallback's, after the
\* template path's save failed.
C8_LoadsAndSaves ==
  /\ loads <= 2
  /\ saves <= 2
  /\ (~template_file.exists => loads = 0)
  /\ (output_file.state = "deck" <=> pc = "done")
  /\ (pc = "done" => saves >= 1)
  /\ (returned_from_template => (loads = 2 /\ saves = 1))
  /\ (saves = 2 => (prs # NoDoc /\ loads = 2))

\* the template path loaded twice, its save failed, and the fallback saved
C8_Witness ==
  /\ returned_from_basic
  /\ loads = 2
  /\ saves = 2

\* ------------------------------------------------- C9
\* C9: the removal loop visits the indices from the last to the first; the
\* index it reads and deletes is an index of the current list (the last one);
\* the slide's relationship is dropped while its list entry is still there
\* and before the entry goes; the slides not yet visited keep entry and
\* relationship; the loop ends with no slide, for every slide count from 0.
C9_RemovalLoop ==
  /\ (pc \in {"remove", "del"} /\ pos <= Len(slide_indices))
       => (/\ valid_index(current_index, new_prs.sldIdLst)
           /\ current_index = Len(slide_indices) - pos
           /\ Len(new_prs.sldIdLst) = current_index + 1
           /\ \A j \in 1..current_index : new_prs.sldIdLst[j] \in DOMAIN new_prs.rels
           /\ ((new_prs.sldIdLst[current_index + 1] \in DOMAIN new_prs.rels)
                 <=> (pc = "remove")))
  /\ ((pc = "remove" /\ pos > Len(slide_indices)) \/ (pc = "build" /\ k = 1))
       => (/\ new_prs.sldIdLst = <<>>
           /\ DOMAIN new_prs.rels = {})

\* the second slide of a two-slide template is about to lose its list entry
\* after the first deletion went through
C9_Witness ==
  /\ pc = "del"
  /\ Len(slide_indices) = 2
  /\ pos = 2
  /\ Len(new_prs.sldIdLst) = 1

\* ------------------------------------------------- C10
\* slide is the slide built from item i of slide_data and from no other
built_from(slide, i) ==
  /\ slide.item = i
  /\ IF slide.layout.owner = "prs"
     THEN slide.shapes = basic_fill(clone_layout_placeholders(slide.layout), slide_data[i])
     ELSE /\ Len(slide.shapes) >= Len(slide.layout.phs)
          /\ SubSeq(slide.shapes, 1, Len(slide.layout.phs))
               = populate_slide_content(clone_layout_placeholders(slide.layout), slide_data[i])

in_item_order(slides) == \A i \in DOMAIN slides : i <= Len(slide_data) /\ built_from(slides[i], i)

\* C10: on both paths the slides are appended in item order: while a deck is
\* built its slides are those of the items handled so far, in order, and the
\* i-th slide of the saved deck is the one built from the i-th item.
C10_ItemOrder ==
  /\ (pc = "build"
        => (Len(new_prs.sldIdLst) = k - 1 /\ in_item_order(doc_slides(new_prs))))
  /\ (pc = "fb_build"
        => (Len(prs.sldIdLst) = k - 1 /\ in_item_order(doc_slides(prs))))
  /\ (pc = "done"
        => (Len(output_file.slides) = Len(slide_data) /\ in_item_order(output_file.slides)))

\* the template path returned a deck built from two different items
C10_Witness ==
  /\ returned_from_template
  /\ Len(slide_data) = 2
  /\ slide_data[1] # slide_data[2]
  /\ output_file.slides[1].shapes # output_file.slides[2].shapes

\* ------------------------------------------------- C11
\* the layouts of a document's slide_layouts
layouts_of(doc) == {doc.layouts[j] : j \in DOMAIN doc.layouts}

\* C11: on the template path every slide appended to new_prs, the document
\* that is saved, was created from a layout of new_prs's own slide_layouts,
\* both when the layout is the exemplar slide's and when it is the default
\* layout taken because no exemplar was found.
C11_LayoutOfWorkingDocument ==
  (pc \in {"build", "save", "done"} /\ prs = NoDoc)
    => \A j \in DOMAIN doc_slides(new_prs) :
         /\ doc_slides(new_prs)[j].layout.owner = new_prs.owner
         /\ doc_slides(new_prs)[j].layout \in layouts_of(new_prs)

================================================================
